---- MODULE Spec2Model ----
(***************************************************************************)
(* Model of the disclosure feed repository:                                *)
(*   - the scraper pipeline (src/unnamed/part_000) and its older variant   *)
(*     (src/tools/scrape-otc-and-sec.js): extraction, mergeAndSort, write; *)
(*   - the browser widget (src/script.js): load, filter, sort, paginate.   *)
(*                                                                         *)
(* JavaScript strings are TLA+ strings; a character is a string of length  *)
(* one and is ordered by its UTF-16 code unit.  A JavaScript value that    *)
(* may be a string, null or undefined is a tagged record (Str, Null,       *)
(* Undefined).  A Date is its time value, in days and milliseconds.        *)
(***************************************************************************)
EXTENDS Integers, Sequences, FiniteSets, TLC

(***************************************************************************)
(* Bounds of the model.                                                    *)
(***************************************************************************)
\* longest candidate sequence handed to mergeAndSort on its own
MaxItems == 3
\* longest filing history answered by the regulatory endpoint
MaxFilings == 2
\* longest list of rows the page evaluation returns
MaxRows == 2
\* longest hand-built array of the artifact the widget loads
MaxFeed == 2
\* the long artifact arrays fill up to this many pages, and one record more
MaxPages == 2

(***************************************************************************)
(* The host the code runs on.  new Date(string) reads a time without a     *)
(* zone in the host's time zone, and localeCompare without a locale orders *)
(* strings by the host's default locale: node takes them from the machine  *)
(* the pipeline runs on, the browser from the reader's settings.           *)
(***************************************************************************)
VARIABLES hostTimeZone, hostLocale

\* hosts: the runner of the publishing workflow, and readers in the United
\* States, Denmark and Estonia.  The time zones are of one offset at all
\* times: UTC, five hours behind it (the zone's name counts the hours west),
\* one hour and two hours ahead.  The locales are of three orders: the
\* common one, one of capitals first and one of another alphabet.
Hosts ==
    {[timeZone |-> "UTC", locale |-> "en-US"], [timeZone |-> "Etc/GMT+5", locale |-> "en-US"],
     [timeZone |-> "Etc/GMT-1", locale |-> "da-DK"], [timeZone |-> "Etc/GMT-2", locale |-> "et-EE"]}

\* the seconds a zone's local time is ahead of UTC
ZoneOffsetSeconds == [z \in {h.timeZone : h \in Hosts} |->
    IF z = "Etc/GMT+5" THEN 0 - 18000
    ELSE IF z = "Etc/GMT-1" THEN 3600
    ELSE IF z = "Etc/GMT-2" THEN 7200 ELSE 0]

(***************************************************************************)
(* JavaScript values and strings.                                          *)
(***************************************************************************)
Undefined == [t |-> "undefined", s |-> ""]
Null == [t |-> "null", s |-> ""]
Str(s) == [t |-> "string", s |-> s]

IsStr(v) == v.t = "string"

\* ToBoolean on a string / null / undefined value
Truthy(v) == IsStr(v) /\ v.s # ""

\* `${v}` and String(v) for a string / null / undefined value
JsString(v) == IF IsStr(v) THEN v.s ELSE v.t

\* v ?? d
Coalesce(v, d) == IF IsStr(v) THEN v ELSE d

Min(a, b) == IF a < b THEN a ELSE b
Max(a, b) == IF a < b THEN b ELSE a

CharAt(s, i) == SubSeq(s, i, i)

Digits == "0123456789"
UpperLetters == "ABCDEFGHIJKLMNOPQRSTUVWXYZ"
LowerLetters == "abcdefghijklmnopqrstuvwxyz"

IndexIn(table, c) == CHOOSE i \in 1..Len(table) : CharAt(table, i) = c
CharsOf(table) == {CharAt(table, i) : i \in 1..Len(table)}

DigitChars == CharsOf(Digits)
UpperChars == CharsOf(UpperLetters)
LowerChars == CharsOf(LowerLetters)

\* the white space and line terminators of ASCII (U+000B aside)
WhiteSpaceChars == {" ", "\t", "\n", "\r", "\f"}

\* the UTF-16 code units of the characters the model's strings are compared on
CodeUnits ==
    [c \in DigitChars |-> 47 + IndexIn(Digits, c)]
        @@ [c \in UpperChars |-> 64 + IndexIn(UpperLetters, c)]
        @@ [c \in LowerChars |-> 96 + IndexIn(LowerLetters, c)]
        @@ (" " :> 32) @@ ("#" :> 35) @@ ("(" :> 40) @@ (")" :> 41) @@ ("+" :> 43)
        @@ ("," :> 44) @@ ("-" :> 45) @@ ("." :> 46) @@ ("/" :> 47) @@ (":" :> 58)
        @@ ("_" :> 95) @@ ("|" :> 124)

\* a < b on two strings: lexicographic comparison of code units
RECURSIVE StrLess(_, _)
StrLess(a, b) ==
    IF b = "" THEN FALSE
    ELSE IF a = "" THEN TRUE
    ELSE IF CharAt(a, 1) = CharAt(b, 1) THEN StrLess(Tail(a), Tail(b))
    ELSE CodeUnits[CharAt(a, 1)] < CodeUnits[CharAt(b, 1)]

\* the lower-case and upper-case forms of the ASCII letters
LowerOf == [c \in UpperChars |-> CharAt(LowerLetters, IndexIn(UpperLetters, c))]

LowerChar(c) == IF c \in UpperChars THEN LowerOf[c] ELSE c

UpperChar(c) == IF c \in LowerChars THEN CharAt(UpperLetters, IndexIn(LowerLetters, c)) ELSE c

RECURSIVE ToLowerCase(_)
ToLowerCase(s) ==
    IF s = "" THEN "" ELSE LowerChar(CharAt(s, 1)) \o ToLowerCase(Tail(s))

RECURSIVE ToUpperCase(_)
ToUpperCase(s) ==
    IF s = "" THEN "" ELSE UpperChar(CharAt(s, 1)) \o ToUpperCase(Tail(s))

\* s.trim(): s without the white space at its two ends
Trim(s) ==
    LET kept == {i \in 1..Len(s) : CharAt(s, i) \notin WhiteSpaceChars}
    IN  IF kept = {} THEN ""
        ELSE SubSeq(s, CHOOSE i \in kept : \A j \in kept : i <= j,
                       CHOOSE i \in kept : \A j \in kept : j <= i)

\* s.includes(q)
Includes(s, q) ==
    \E i \in 1..(Len(s) - Len(q) + 1) : SubSeq(s, i, i + Len(q) - 1) = q

\* the first position from i on whose character is not in chars
RECURSIVE SpanEnd(_, _, _)
SpanEnd(s, i, chars) ==
    IF i <= Len(s) /\ CharAt(s, i) \in chars THEN SpanEnd(s, i + 1, chars) ELSE i

(***************************************************************************)
(* Numbers as decimal strings.                                             *)
(***************************************************************************)
\* String(n) for a non-negative integer
RECURSIVE NumToStr(_)
NumToStr(n) ==
    IF n < 10 THEN CharAt(Digits, n + 1)
    ELSE NumToStr(n \div 10) \o CharAt(Digits, (n % 10) + 1)

IsDigits(s) == \A i \in 1..Len(s) : CharAt(s, i) \in DigitChars

\* Number(s) for a string of decimal digits
RECURSIVE StrToNum(_)
StrToNum(s) ==
    IF s = "" THEN 0
    ELSE 10 * StrToNum(SubSeq(s, 1, Len(s) - 1)) + (IndexIn(Digits, CharAt(s, Len(s))) - 1)

\* s.padStart(n, c) for a one-character c
RECURSIVE PadStart(_, _, _)
PadStart(s, n, c) == IF Len(s) >= n THEN s ELSE PadStart(c \o s, n, c)

\* The scan of a decimal numeric literal from position i of s: an optional
\* sign, then Infinity, or digits, a fraction and an exponent.  The state
\* holds the phase of the scan ("sign", "int", "frac", "expSign", "exp", and
\* "inf" or "bad" once the scan is decided), whether a digit of the mantissa
\* or of the exponent was read, the mantissa's digits from its first digit
\* that is not 0 (sig), the power of ten of that digit (mag), and the
\* exponent, counted up to 1000000.
RECURSIVE ScanDecimal(_, _, _)
ScanDecimal(s, i, st) ==
    IF i > Len(s) \/ st.phase \in {"inf", "bad"} THEN st
    ELSE LET c == CharAt(s, i)
             sig == IF st.sig = "" /\ c = "0" THEN "" ELSE st.sig \o c
         IN  ScanDecimal(s, i + 1,
                 IF st.phase = "sign" /\ c \in {"+", "-"}
                 THEN [st EXCEPT !.phase = "int", !.neg = (c = "-")]
                 ELSE IF st.phase \in {"sign", "int"} /\ ~st.any
                            /\ SubSeq(s, i, Len(s)) = "Infinity"
                 THEN [st EXCEPT !.phase = "inf"]
                 ELSE IF st.phase \in {"sign", "int"} /\ c \in DigitChars
                 THEN [st EXCEPT !.phase = "int", !.any = TRUE, !.sig = sig,
                                 !.mag = IF st.sig = "" THEN 0 ELSE st.mag + 1]
                 ELSE IF st.phase \in {"sign", "int"} /\ c = "."
                 THEN [st EXCEPT !.phase = "frac"]
                 ELSE IF st.phase = "frac" /\ c \in DigitChars
                 THEN [st EXCEPT !.any = TRUE, !.sig = sig,
                                 !.mag = IF st.sig = "" THEN st.mag - 1 ELSE st.mag]
                 ELSE IF st.phase \in {"int", "frac"} /\ st.any /\ c \in {"e", "E"}
                 THEN [st EXCEPT !.phase = "expSign"]
                 ELSE IF st.phase = "expSign" /\ c \in {"+", "-"}
                 THEN [st EXCEPT !.phase = "exp", !.expNeg = (c = "-")]
                 ELSE IF st.phase \in {"expSign", "exp"} /\ c \in DigitChars
                 THEN [st EXCEPT !.phase = "exp", !.expAny = TRUE,
                                 !.exp = Min(10 * st.exp + IndexIn(Digits, c) - 1, 1000000)]
                 ELSE [st EXCEPT !.phase = "bad"])

\* Number(s) of a string compared with zero: "nan", "neg", "zero" or "pos".
\* The string is trimmed; the empty string is 0; then it is a literal with a
\* radix prefix (0x, 0o, 0b) or a decimal literal.  A decimal literal up to
\* 2^-1075 (2.47...e-324) rounds to zero.
StringToNumberSign(s) ==
    LET Decimal(st) ==
            LET magnitude == st.mag + (IF st.expNeg THEN 0 - st.exp ELSE st.exp)
            IN  IF st.phase = "inf" THEN (IF st.neg THEN "neg" ELSE "pos")
                ELSE IF st.phase \in {"bad", "sign", "expSign"} \/ ~st.any
                           \/ (st.phase = "exp" /\ ~st.expAny)
                THEN "nan"
                ELSE IF st.sig = "" \/ magnitude < 0 - 324 THEN "zero"
                ELSE IF /\ magnitude = 0 - 324
                        /\ ~StrLess("2470328229206232720882843964341106861825", st.sig)
                THEN "zero"
                ELSE IF st.neg THEN "neg" ELSE "pos"
        Literal(t) ==
            LET radixDigits ==
                    IF Len(t) < 3 \/ CharAt(t, 1) # "0" THEN {}
                    ELSE IF CharAt(t, 2) \in {"x", "X"}
                    THEN DigitChars \cup CharsOf("abcdefABCDEF")
                    ELSE IF CharAt(t, 2) \in {"o", "O"} THEN CharsOf("01234567")
                    ELSE IF CharAt(t, 2) \in {"b", "B"} THEN {"0", "1"}
                    ELSE {}
            IN  IF t = "" THEN "zero"
                ELSE IF radixDigits # {} /\ SpanEnd(t, 3, radixDigits) = Len(t) + 1
                THEN (IF SpanEnd(t, 3, {"0"}) = Len(t) + 1 THEN "zero" ELSE "pos")
                ELSE Decimal(ScanDecimal(t, 1,
                                 [phase |-> "sign", neg |-> FALSE, any |-> FALSE, sig |-> "",
                                  mag |-> 0, expNeg |-> FALSE, expAny |-> FALSE, exp |-> 0]))
    IN  Literal(Trim(s))

\* a < b on string / null / undefined values: two strings compare as
\* strings; otherwise both convert to numbers, undefined to NaN, null to 0
\* and a string to the number it spells, and a comparison with NaN is false.
\* One of the two numbers is then 0 or NaN, so the sign of the other decides.
JsLess(a, b) ==
    IF IsStr(a) /\ IsStr(b) THEN StrLess(a.s, b.s)
    ELSE IF IsStr(a) THEN b = Null /\ StringToNumberSign(a.s) = "neg"
    ELSE IF IsStr(b) THEN a = Null /\ StringToNumberSign(b.s) = "pos"
    ELSE FALSE

(***************************************************************************)
(* Dates.  A time value counts milliseconds and exceeds the integers of    *)
(* the checker, so a number of milliseconds is held as whole days and the  *)
(* milliseconds left over: days * 86400000 + ms with 0 <= ms < 86400000.   *)
(* new Date(string) is the parser of V8 (node, Chromium): the ISO format   *)
(* first, the legacy parser on what the ISO format leaves.  A time without *)
(* a zone is local time, read in the host's time zone; a date of the ISO   *)
(* format without a time is UTC.                                           *)
(***************************************************************************)
Ms(days, ms) == [days |-> days + (ms \div 86400000), ms |-> ms % 86400000]

NaN == [nan |-> TRUE, days |-> 0, ms |-> 0]
TimeValue(days, ms) == [nan |-> FALSE, days |-> Ms(days, ms).days, ms |-> Ms(days, ms).ms]

\* a - b on two Dates with valid time values: the milliseconds between them
DateMinus(a, b) == Ms(a.days - b.days, a.ms - b.ms)

\* -1, 0 or 1 as a number of milliseconds is negative, zero or positive
MsSign(n) == IF n.days < 0 THEN -1 ELSE IF n.days = 0 /\ n.ms = 0 THEN 0 ELSE 1

\* days from 1970-01-01 to the civil date y-m-d (proleptic Gregorian, UTC)
DaysFromCivil(y, m, d) ==
    LET yy == IF m <= 2 THEN y - 1 ELSE y
        era == yy \div 400
        yoe == yy - era * 400
        mp == IF m > 2 THEN m - 3 ELSE m + 9
        doy == ((153 * mp + 2) \div 5) + d - 1
        doe == yoe * 365 + (yoe \div 4) - (yoe \div 100) + doy
    IN  era * 146097 + doe - 719468

\* the civil date of a day count
CivilFromDays(z) ==
    LET zz == z + 719468
        era == zz \div 146097
        doe == zz - era * 146097
        yoe == (doe - (doe \div 1460) + (doe \div 36524) - (doe \div 146096)) \div 365
        doy == doe - (365 * yoe + (yoe \div 4) - (yoe \div 100))
        mp == (5 * doy + 2) \div 153
        d == doy - ((153 * mp + 2) \div 5) + 1
        m == IF mp < 10 THEN mp + 3 ELSE mp - 9
        y == yoe + era * 400 + (IF m <= 2 THEN 1 ELSE 0)
    IN  [y |-> y, m |-> m, d |-> d]

\* --- the tokens of a date string ---
\* a token: a number (k = "num", its value and its length in characters),
\* one of the symbols : - + . ) (k is the symbol), a word (k = "month",
\* "ampm", "zone", "T" or "word", with the keyword's value and the word's
\* length), white space ("ws"), anything else ("unknown"), the end ("end")
Token(k, n, len) == [k |-> k, n |-> n, len |-> len]

\* the token at position i of a token sequence, the end token past its end
Peek(ts, i) == IF i \in 1..Len(ts) THEN ts[i] ELSE Token("end", 0, 0)

\* the characters of a word: the letters and the other characters from "A"
\* on (of these, ASCII has the brackets, the backslash, the caret, the
\* underscore, the grave accent, which a string of this module cannot
\* hold, the braces, the bar and the tilde)
WordChars == UpperChars \cup LowerChars \cup {"[", "\\", "]", "^", "_", "{", "|", "}", "~"}

\* the value of a run of digits: leading zeros are skipped, and the digits
\* after the ninth are read but not counted
ReadUnsignedNumeral(digits) ==
    LET from == SpanEnd(digits, 1, {"0"})
    IN  StrToNum(SubSeq(digits, from, Min(from + 8, Len(digits))))

\* the keyword table: a word starting with the three letters of a month
\* name is that month; the other keywords are matched whole
KeywordToken(word) ==
    LET w == ToLowerCase(word)
        months == <<"jan", "feb", "mar", "apr", "may", "jun",
                    "jul", "aug", "sep", "oct", "nov", "dec">>
        zones == ("ut" :> 0) @@ ("utc" :> 0) @@ ("z" :> 0) @@ ("gmt" :> 0)
                     @@ ("cdt" :> 0 - 5) @@ ("cst" :> 0 - 6) @@ ("edt" :> 0 - 4)
                     @@ ("est" :> 0 - 5) @@ ("mdt" :> 0 - 6) @@ ("mst" :> 0 - 7)
                     @@ ("pdt" :> 0 - 7) @@ ("pst" :> 0 - 8)
    IN  IF Len(w) >= 3 /\ \E m \in 1..12 : months[m] = SubSeq(w, 1, 3)
        THEN Token("month", CHOOSE m \in 1..12 : months[m] = SubSeq(w, 1, 3), Len(w))
        ELSE IF w \in {"am", "pm"} THEN Token("ampm", IF w = "am" THEN 0 ELSE 12, Len(w))
        ELSE IF w \in DOMAIN zones THEN Token("zone", zones[w], Len(w))
        ELSE IF w = "t" THEN Token("T", 0, 1)
        ELSE Token("word", 0, Len(w))

\* the position after a parenthesized text that starts at i (the text ends
\* where the parentheses balance, or with the string)
RECURSIVE ParenEnd(_, _, _)
ParenEnd(s, i, balance) ==
    LET b == IF CharAt(s, i) = ")" THEN balance - 1
             ELSE IF CharAt(s, i) = "(" THEN balance + 1 ELSE balance
    IN  IF b > 0 /\ i < Len(s) THEN ParenEnd(s, i + 1, b) ELSE i + 1

\* the tokens of s from position i on
RECURSIVE Tokens(_, _)
Tokens(s, i) ==
    IF i > Len(s) THEN <<>>
    ELSE LET c == CharAt(s, i)
             digitsEnd == SpanEnd(s, i, DigitChars)
             wordEnd == SpanEnd(s, i, WordChars)
         IN  IF c \in DigitChars
             THEN <<Token("num", ReadUnsignedNumeral(SubSeq(s, i, digitsEnd - 1)),
                          digitsEnd - i)>> \o Tokens(s, digitsEnd)
             ELSE IF c \in {":", "-", "+", ".", ")"}
             THEN <<Token(c, 0, 1)>> \o Tokens(s, i + 1)
             ELSE IF c \in WordChars
             THEN <<KeywordToken(SubSeq(s, i, wordEnd - 1))>> \o Tokens(s, wordEnd)
             ELSE IF c \in WhiteSpaceChars
             THEN <<Token("ws", 0, 1)>> \o Tokens(s, i + 1)
             ELSE IF c = "("
             THEN <<Token("unknown", 0, 0)>> \o Tokens(s, ParenEnd(s, i, 0))
             ELSE <<Token("unknown", 0, 1)>> \o Tokens(s, i + 1)

\* the milliseconds a fraction of a second spells: its first three digits,
\* as inferred from the value and the length of the number token
ReadMilliseconds(token) ==
    IF token.len = 1 THEN token.n * 100
    ELSE IF token.len = 2 THEN token.n * 10
    ELSE IF token.len = 3 THEN token.n
    ELSE token.n \div (CASE Min(token.len, 9) = 4 -> 10
                         [] Min(token.len, 9) = 5 -> 100
                         [] Min(token.len, 9) = 6 -> 1000
                         [] Min(token.len, 9) = 7 -> 10000
                         [] Min(token.len, 9) = 8 -> 100000
                         [] OTHER -> 1000000)

\* --- the parser ---
\* The parser's state: the day composer (up to three numbers, a named
\* month or 0), the time composer (up to four numbers, the hour offset of
\* AM/PM or -1), the time zone composer (sign or 0, hour and minute or -1),
\* whether the ISO format matched, whether a number has been read, and ok,
\* false once the string is rejected.
\*
\* The ISO format: [+-]YYYYYY or YYYY, then -MM, -DD, then THH:mm[:ss[.sss]]
\* and Z or [+-]HH:mm.  The result is the state, the first token the format
\* left unhandled (cur) and the position of the token after it (next).
ParseES5DateTime(ts) ==
    LET none == [ok |-> TRUE, read |-> FALSE, iso |-> FALSE, day |-> <<>>, month |-> 0,
                 time |-> <<>>, offset |-> 0 - 1, sign |-> 0, hour |-> 0 - 1, minute |-> 0 - 1]
        Unhandled(d, cur, next) ==
            [st |-> [none EXCEPT !.day = d, !.read = (d # <<>>)], cur |-> cur, next |-> next]
        Invalid == [st |-> [none EXCEPT !.ok = FALSE], cur |-> Token("end", 0, 0), next |-> 1]
        Done(d, tm, sg, h, m) ==
            [st |-> [none EXCEPT !.day = d, !.read = TRUE, !.iso = TRUE, !.time = tm,
                                 !.sign = sg, !.hour = h, !.minute = m],
             cur |-> Token("end", 0, 0), next |-> 1]
        \* the optional time zone at position i, then the end of the input
        Zone(d, tm, i) ==
            LET z == Peek(ts, i)
                a == Peek(ts, i + 1)
                b == Peek(ts, i + 3)
                sg == IF z.k = "+" THEN 1 ELSE 0 - 1
            IN  IF z.k = "zone" /\ z.len = 1
                THEN (IF a.k = "end" THEN Done(d, tm, 1, 0, 0) ELSE Invalid)
                ELSE IF z.k \in {"+", "-"}
                THEN IF a.k = "num" /\ a.len = 4
                     THEN (IF /\ (a.n \div 100) \in 0..23 /\ (a.n % 100) \in 0..59
                              /\ Peek(ts, i + 2).k = "end"
                           THEN Done(d, tm, sg, a.n \div 100, a.n % 100) ELSE Invalid)
                     ELSE (IF /\ a.k = "num" /\ a.len = 2 /\ a.n \in 0..23
                              /\ Peek(ts, i + 2).k = ":"
                              /\ b.k = "num" /\ b.len = 2 /\ b.n \in 0..59
                              /\ Peek(ts, i + 4).k = "end"
                           THEN Done(d, tm, sg, a.n, b.n) ELSE Invalid)
                ELSE IF z.k = "end" THEN Done(d, tm, 0, 0 - 1, 0 - 1)
                ELSE Invalid
        \* the time after the T at position i; 24:00:00.000 is the one time
        \* of hour 24
        Time(d, i) ==
            LET h == Peek(ts, i + 1)
                m == Peek(ts, i + 3)
                sec == Peek(ts, i + 5)
                f == Peek(ts, i + 7)
                hasSeconds == Peek(ts, i + 4).k = ":"
                hasFraction == hasSeconds /\ Peek(ts, i + 6).k = "."
            IN  IF ~(h.k = "num" /\ h.len = 2 /\ h.n \in 0..24) THEN Invalid
                ELSE IF Peek(ts, i + 2).k # ":" THEN Invalid
                ELSE IF ~(m.k = "num" /\ m.len = 2 /\ m.n \in 0..59 /\ (h.n = 24 => m.n = 0))
                THEN Invalid
                ELSE IF hasSeconds /\ ~(/\ sec.k = "num" /\ sec.len = 2 /\ sec.n \in 0..59
                                        /\ (h.n = 24 => sec.n = 0))
                THEN Invalid
                ELSE IF hasFraction /\ ~(f.k = "num" /\ (h.n = 24 => f.n = 0)) THEN Invalid
                ELSE Zone(d,
                          IF hasFraction THEN <<h.n, m.n, sec.n, ReadMilliseconds(f)>>
                          ELSE IF hasSeconds THEN <<h.n, m.n, sec.n>> ELSE <<h.n, m.n>>,
                          IF hasFraction THEN i + 8 ELSE IF hasSeconds THEN i + 6 ELSE i + 4)
        \* after the date: a T and a time, or the end (a date alone is UTC);
        \* anything else is left to the legacy parser
        AfterDate(d, i) ==
            IF Peek(ts, i).k = "T" THEN Time(d, i)
            ELSE IF Peek(ts, i).k # "end" THEN Unhandled(d, Peek(ts, i), i + 1)
            ELSE Done(d, <<>>, 1, 0, 0)
        \* after the year: -MM and -DD, each of two digits and in range
        MonthDay(d, i) ==
            LET mo == Peek(ts, i + 1)
                dy == Peek(ts, i + 3)
                hasMonth == Peek(ts, i).k = "-"
                hasDay == hasMonth /\ Peek(ts, i + 2).k = "-"
            IN  IF hasMonth /\ ~(mo.k = "num" /\ mo.len = 2 /\ mo.n \in 1..12)
                THEN Unhandled(d, mo, i + 2)
                ELSE IF hasDay /\ ~(dy.k = "num" /\ dy.len = 2 /\ dy.n \in 1..31)
                THEN Unhandled(Append(d, mo.n), dy, i + 4)
                ELSE AfterDate(IF hasDay THEN d \o <<mo.n, dy.n>>
                               ELSE IF hasMonth THEN Append(d, mo.n) ELSE d,
                               IF hasDay THEN i + 4 ELSE IF hasMonth THEN i + 2 ELSE i)
        t1 == Peek(ts, 1)
        t2 == Peek(ts, 2)
        signed == t1.k \in {"+", "-"}
    IN  IF signed /\ ~(t2.k = "num" /\ t2.len = 6) THEN Unhandled(<<>>, t1, 2)
        ELSE IF signed /\ t1.k = "-" /\ t2.n = 0 THEN Unhandled(<<>>, t1, 3)
        ELSE IF ~signed /\ ~(t1.k = "num" /\ t1.len = 4) THEN Unhandled(<<>>, t1, 2)
        ELSE MonthDay(<<IF ~signed THEN t1.n ELSE IF t1.k = "-" THEN 0 - t2.n ELSE t2.n>>,
                      IF signed THEN 3 ELSE 2)

\* One turn of the legacy parser's loop on the token cur, the token after
\* it being at position nxt: a number followed by ":" or "." belongs to the
\* time, another number to the time zone's minutes (if below 60 and the
\* zone's hour was read with a ":" after it), the time or the day; a
\* month name or AM/PM is recorded, a zone name too once a number was read,
\* another word is ignored before the first number and rejected after it;
\* a sign after a time or UTC starts a zone offset.  The result is the
\* state and the position of the next token to handle.
LegacyStep(ts, cur, nxt, st) ==
    LET p == Peek(ts, nxt)
        Go(s, i) == [st |-> s, next |-> i]
        Fail == [st |-> [st EXCEPT !.ok = FALSE], next |-> nxt]
        read == [st EXCEPT !.read = TRUE]
        expecting ==
            \/ Len(st.time) \in {1, 2} /\ cur.n \in 0..59
            \/ Len(st.time) = 3 /\ cur.n \in 0..999
        Filled(tm) == tm \o [i \in 1..(4 - Len(tm)) |-> 0]
        \* a "." after the number is skipped
        j == IF p.k = "." THEN nxt + 1 ELSE nxt
        q == Peek(ts, j)
        zoneNumber == IF p.k = "num" THEN p ELSE Token("num", 0, 0)
        afterZone == IF p.k = "num" THEN nxt + 1 ELSE nxt
        signed == [read EXCEPT !.sign = IF cur.k = "+" THEN 1 ELSE 0 - 1]
    IN  IF cur.k = "num"
        THEN IF p.k = ":"
             THEN IF Peek(ts, nxt + 1).k = ":"
                  THEN (IF st.time # <<>> THEN Fail
                        ELSE Go([read EXCEPT !.time = <<cur.n, 0>>], nxt + 2))
                  ELSE IF Len(st.time) >= 4 THEN Fail
                  ELSE Go([read EXCEPT !.time = Append(st.time, cur.n)],
                          IF Peek(ts, nxt + 1).k = "." THEN nxt + 2 ELSE nxt + 1)
             ELSE IF p.k = "." /\ expecting
             THEN IF q.k # "num" THEN Fail
                  ELSE Go([read EXCEPT !.time =
                              IF Len(st.time) = 3 THEN Append(st.time, cur.n)
                              ELSE Filled(st.time \o <<cur.n, ReadMilliseconds(q)>>)],
                          j + 1)
             ELSE IF st.hour # 0 - 1 /\ st.minute = 0 - 1 /\ cur.n \in 0..59
             THEN Go([read EXCEPT !.minute = cur.n], j)
             ELSE IF expecting
             THEN (IF q.k \in {"end", "ws", "+", "-"} \/ (q.k = "zone" /\ q.len = 1)
                   THEN Go([read EXCEPT !.time = Filled(Append(st.time, cur.n))], j)
                   ELSE Fail)
             ELSE IF Len(st.day) >= 3 THEN Fail
             ELSE Go([read EXCEPT !.day = Append(st.day, cur.n)],
                     IF q.k = "-" THEN j + 1 ELSE j)
        ELSE IF cur.k \in {"month", "ampm", "zone", "T", "word"}
        THEN IF cur.k = "ampm" /\ st.time # <<>> THEN Go([st EXCEPT !.offset = cur.n], nxt)
             ELSE IF cur.k = "month"
             THEN Go([st EXCEPT !.month = cur.n], IF p.k = "-" THEN nxt + 1 ELSE nxt)
             ELSE IF cur.k = "zone" /\ st.read
             THEN Go([st EXCEPT !.sign = IF cur.n < 0 THEN 0 - 1 ELSE 1,
                                !.hour = IF cur.n < 0 THEN 0 - cur.n ELSE cur.n,
                                !.minute = 0], nxt)
             ELSE IF st.read \/ p.k = "num" THEN Fail
             ELSE Go(st, nxt)
        ELSE IF cur.k \in {"+", "-"} /\ ((st.hour = 0 /\ st.minute = 0) \/ st.time # <<>>)
        THEN IF Peek(ts, afterZone).k = ":"
             THEN Go([signed EXCEPT !.hour = zoneNumber.n, !.minute = 0 - 1], afterZone)
             ELSE IF zoneNumber.len \in {1, 2}
             THEN Go([signed EXCEPT !.hour = zoneNumber.n, !.minute = 0], afterZone)
             ELSE IF zoneNumber.len \in {3, 4}
             THEN Go([signed EXCEPT !.hour = zoneNumber.n \div 100,
                                    !.minute = zoneNumber.n % 100], afterZone)
             ELSE Fail
        ELSE IF cur.k \in {"+", "-", ")"} /\ st.read THEN Fail
        ELSE Go(st, nxt)

\* the legacy parser's loop, from the token cur to the end of the input
RECURSIVE LegacyLoop(_, _, _, _)
LegacyLoop(ts, cur, nxt, st) ==
    IF cur.k = "end" \/ ~st.ok THEN st
    ELSE LET Continue(r) == LegacyLoop(ts, Peek(ts, r.next), r.next + 1, r.st)
         IN  Continue(LegacyStep(ts, cur, nxt, st))

\* the day composer's result: missing numbers are 1; without a named month
\* the numbers are year-month-day if the format was ISO or the first is no
\* day of a month, else month-day-year; with a named month they are
\* year-day or day-year; a legacy year below 100 is of 2000-2049 or
\* 1950-1999; the month is 1..12 and the day 1..31
DayWrite(st) ==
    LET comp == st.day \o [i \in 1..(3 - Len(st.day)) |-> 1]
        ymd == IF st.month = 0
               THEN (IF st.iso \/ comp[1] \notin 1..31 THEN comp
                     ELSE <<comp[3], comp[1], comp[2]>>)
               ELSE IF comp[1] \notin 1..31 THEN <<comp[1], st.month, comp[2]>>
               ELSE <<comp[2], st.month, comp[1]>>
        year == IF ~st.iso /\ ymd[1] \in 0..49 THEN ymd[1] + 2000
                ELSE IF ~st.iso /\ ymd[1] \in 50..99 THEN ymd[1] + 1900
                ELSE ymd[1]
    IN  [ok |-> st.day # <<>> /\ ymd[2] \in 1..12 /\ ymd[3] \in 1..31,
         year |-> year, month |-> ymd[2], day |-> ymd[3]]

\* the time composer's result, the milliseconds since midnight: missing
\* numbers are 0, AM/PM moves an hour of 0..12, and hour 24 stands with
\* zeros only
TimeWrite(st) ==
    LET t == st.time \o [i \in 1..(4 - Len(st.time)) |-> 0]
        hour == IF st.offset = 0 - 1 THEN t[1] ELSE (t[1] % 12) + st.offset
        ok == /\ st.offset # 0 - 1 => t[1] \in 0..12
              /\ \/ hour \in 0..23 /\ t[2] \in 0..59 /\ t[3] \in 0..59 /\ t[4] \in 0..999
                 \/ hour = 24 /\ t[2] = 0 /\ t[3] = 0 /\ t[4] = 0
    IN  [ok |-> ok,
         ms |-> IF ok THEN hour * 3600000 + t[2] * 60000 + t[3] * 1000 + t[4] ELSE 0]

\* the time zone composer's result, the offset from UTC in seconds, or
\* local time when no zone was read.  hour * 3600 + minute * 60 is computed
\* in 32 bits (here in halves of 16 bits) and must not exceed 2^31 - 1.
ZoneWrite(st) ==
    LET h == IF st.hour = 0 - 1 THEN 0 ELSE st.hour
        m == IF st.minute = 0 - 1 THEN 0 ELSE st.minute
        low == (h % 65536) * 3600 + (m % 65536) * 60
        high == ((h \div 65536) * 3600 + (m \div 65536) * 60 + (low \div 65536)) % 65536
    IN  IF st.sign = 0 THEN [ok |-> TRUE, local |-> TRUE, seconds |-> 0]
        ELSE [ok |-> high < 32768, local |-> FALSE,
              seconds |-> IF high < 32768 THEN st.sign * (high * 65536 + (low % 65536)) ELSE 0]

\* new Date(s) for a string s, as its time value: the day of the date
\* (a day past the end of its month runs into the next month) and the time,
\* less the offset of the zone read, or of the host's zone for local time;
\* NaN if the string is rejected, the year is
\* outside -1000000..1000000 or the time is more than 100 000 000 days
\* from the epoch
DateParse(s) ==
    LET ts == Tokens(s, 1)
        Legacy(first) == LegacyLoop(ts, first.cur, first.next, first.st)
        MakeTime(ok, d, t, z) ==
            LET seconds == IF z.local THEN ZoneOffsetSeconds[hostTimeZone] ELSE z.seconds
                v == Ms(DaysFromCivil(d.year, d.month, 1) + d.day - 1 - (seconds \div 86400),
                        t.ms - (seconds % 86400) * 1000)
            IN  IF ~(ok /\ d.ok /\ t.ok /\ z.ok) THEN NaN
                ELSE IF d.year < 0 - 1000000 \/ d.year > 1000000 THEN NaN
                ELSE IF v.days < 0 - 100000000 \/ v.days > 100000000 THEN NaN
                ELSE IF v.days = 100000000 /\ v.ms > 0 THEN NaN
                ELSE TimeValue(v.days, v.ms)
        Write(st) == MakeTime(st.ok, DayWrite(st), TimeWrite(st), ZoneWrite(st))
    IN  Write(Legacy(ParseES5DateTime(ts)))

\* dt.toISOString().slice(0, 10): YYYY-MM-DD, and the first ten characters
\* of +YYYYYY-MM-DD or -YYYYYY-MM-DD for a year outside 0..9999
IsoDay(t) ==
    LET Format(c) ==
            LET monthDay == "-" \o PadStart(NumToStr(c.m), 2, "0")
                                \o "-" \o PadStart(NumToStr(c.d), 2, "0")
            IN  IF c.y \in 0..9999 THEN PadStart(NumToStr(c.y), 4, "0") \o monthDay
                ELSE SubSeq((IF c.y < 0 THEN "-" ELSE "+")
                                \o PadStart(NumToStr(IF c.y < 0 THEN 0 - c.y ELSE c.y), 6, "0")
                                \o monthDay, 1, 10)
    IN  Format(CivilFromDays(t.days))

\* toISO(d): const dt = d ? new Date(d) : null;
\*           return dt && !isNaN(dt) ? dt.toISOString().slice(0, 10) : null
toISO(d) ==
    IF ~Truthy(d) THEN Null
    ELSE LET Day(dt) == IF dt.nan THEN Null ELSE Str(IsoDay(dt)) IN Day(DateParse(d.s))

(***************************************************************************)
(* The comparators the program hands to Array.prototype.sort.              *)
(***************************************************************************)
\* a.localeCompare(b) for strings of letters, digits and spaces, in the
\* order of the host's locale.  Strings are compared by their letters
\* without regard to case first (space, then digits, then the letters in
\* the order of the locale's alphabet); strings equal that way are ordered
\* by the first difference of case.
\* Estonian has z after s; Danish has capitals first, and reads "aa" (or
\* "Aa", "AA") as one letter, which is the last of its alphabet.
PrimaryWeights == [locale \in {h.locale : h \in Hosts} |->
    (" " :> 0) @@ [c \in DigitChars |-> IndexIn(Digits, c)]
        @@ [c \in LowerChars |->
               10 + IndexIn(IF locale = "et-EE" THEN "abcdefghijklmnopqrsztuvwxy"
                            ELSE LowerLetters, c)]]

\* the letters of a string as the locale reads them, each with its weight
\* and its case (0 lower, 1 mixed, 2 upper)
RECURSIVE CollationElements(_)
CollationElements(s) ==
    IF s = "" THEN <<>>
    ELSE IF hostLocale = "da-DK" /\ Len(s) >= 2 /\ SubSeq(s, 1, 2) \in {"aa", "Aa", "AA"}
    THEN <<[primary |-> 37,
            case |-> IF SubSeq(s, 1, 2) = "aa" THEN 0
                     ELSE IF SubSeq(s, 1, 2) = "Aa" THEN 1 ELSE 2]>>
             \o CollationElements(SubSeq(s, 3, Len(s)))
    ELSE <<[primary |-> PrimaryWeights[hostLocale][LowerChar(CharAt(s, 1))],
            case |-> IF CharAt(s, 1) \in UpperChars THEN 2 ELSE 0]>>
             \o CollationElements(Tail(s))

\* the comparison of two sequences of letters by weight
RECURSIVE PrimaryCompare(_, _)
PrimaryCompare(a, b) ==
    IF a = <<>> /\ b = <<>> THEN 0
    ELSE IF a = <<>> THEN -1
    ELSE IF b = <<>> THEN 1
    ELSE IF Head(a).primary < Head(b).primary THEN -1
    ELSE IF Head(a).primary > Head(b).primary THEN 1
    ELSE PrimaryCompare(Tail(a), Tail(b))

\* the comparison by case of two sequences of letters of equal weights
RECURSIVE CaseCompare(_, _)
CaseCompare(a, b) ==
    IF a = <<>> \/ b = <<>> THEN 0
    ELSE IF Head(a).case = Head(b).case THEN CaseCompare(Tail(a), Tail(b))
    ELSE IF (Head(a).case < Head(b).case) = (hostLocale # "da-DK") THEN -1 ELSE 1

localeCompare(a, b) ==
    LET Order(x, y) ==
            LET ByCase(primary) == IF primary # 0 THEN primary ELSE CaseCompare(x, y)
            IN  ByCase(PrimaryCompare(x, y))
    IN  Order(CollationElements(a), CollationElements(b))

\* a comparator with the branches swapped
dateComparatorSwapped(a, b) == IF JsLess(a.date, b.date) THEN -1 ELSE 1

\* mergeAndSort: (a, b) => (a.date < b.date ? 1 : -1)
dateComparator(a, b) == IF JsLess(a.date, b.date) THEN 1 ELSE -1

\* applyFilters: (a, b) => { if (mode === "date_desc") return b.date - a.date;
\*   ... return 0 }
\* the result is a number of milliseconds under the two date modes, and
\* -1, 0 or 1 under the others
modeComparator(mode, a, b) ==
    IF mode = "date_desc" THEN DateMinus(b.date, a.date)
    ELSE IF mode = "date_asc" THEN DateMinus(a.date, b.date)
    ELSE IF mode = "title_asc" THEN localeCompare(a.title, b.title)
    ELSE IF mode = "title_desc" THEN localeCompare(b.title, a.title)
    ELSE 0

\* the call of a comparator by the sort, which reads whether the result is
\* negative, zero or positive: cmp names mergeAndSort's comparator or is
\* the mode that applyFilters' comparator closes over
Compare(cmp, a, b) ==
    IF cmp = "dateComparator" THEN dateComparator(a, b)
    ELSE IF cmp \in {"date_desc", "date_asc"} THEN MsSign(modeComparator(cmp, a, b))
    ELSE modeComparator(cmp, a, b)

(***************************************************************************)
(* Array.prototype.sort as V8 runs it on an array of fewer than 64         *)
(* elements (the model's arrays are shorter): one run is counted from the  *)
(* left (and reversed when it descends under the comparator), and the rest *)
(* is placed by binary insertion; Compare(cmp, a, b) is the result of the  *)
(* comparator cmp.                                                         *)
(***************************************************************************)
Reverse(arr) == [i \in 1..Len(arr) |-> arr[Len(arr) + 1 - i]]

\* length of the run starting at arr[1] whose direction is `descending`:
\* the run ends before the first element whose order against the element
\* before it is not the run's (order >= 0 in a descending run, order < 0 in
\* an ascending one)
RECURSIVE RunLength(_, _, _, _)
RunLength(arr, cmp, descending, idx) ==
    IF idx > Len(arr) THEN idx - 1
    ELSE IF descending # (Compare(cmp, arr[idx], arr[idx - 1]) < 0) THEN idx - 1
    ELSE RunLength(arr, cmp, descending, idx + 1)

\* position where pivot belongs in arr[left+1 .. right] (0-based left, right)
RECURSIVE BinarySearch(_, _, _, _, _)
BinarySearch(arr, cmp, pivot, left, right) ==
    IF left >= right THEN left
    ELSE LET mid == left + ((right - left) \div 2)
         IN  IF Compare(cmp, pivot, arr[mid + 1]) < 0
             THEN BinarySearch(arr, cmp, pivot, left, mid)
             ELSE BinarySearch(arr, cmp, pivot, mid + 1, right)

\* insert arr[start+1 ..] one by one into the sorted prefix arr[1 .. start]
RECURSIVE BinaryInsertionSort(_, _, _)
BinaryInsertionSort(arr, cmp, start) ==
    IF start >= Len(arr) THEN arr
    ELSE LET pivot == arr[start + 1]
             Moved(left) == SubSeq(arr, 1, left) \o <<pivot>> \o SubSeq(arr, left + 1, start)
                                \o SubSeq(arr, start + 2, Len(arr))
         IN  BinaryInsertionSort(Moved(BinarySearch(arr, cmp, pivot, 0, start)), cmp, start + 1)

ArraySort(arr, cmp) ==
    IF Len(arr) < 2 THEN arr
    ELSE LET Insert(descending, run) ==
                 BinaryInsertionSort(IF descending
                                     THEN Reverse(SubSeq(arr, 1, run))
                                              \o SubSeq(arr, run + 1, Len(arr))
                                     ELSE arr, cmp, run)
             CountRun(descending) == Insert(descending, RunLength(arr, cmp, descending, 3))
         IN  CountRun(Compare(cmp, arr[2], arr[1]) < 0)

(***************************************************************************)
(* Candidate records and the reconciler (mergeAndSort).                    *)
(* A candidate is [source, title, link, date, description]: title and link *)
(* are strings, date is a string / null / undefined value.                 *)
(***************************************************************************)
SecDescription == "SEC EDGAR filing"
OtcDescription == "OTC Disclosure & News Service"

\* const key = x => `${x.title}|${x.link}|${x.date}`
key(x) == x.title \o "|" \o x.link \o "|" \o JsString(x.date)

\* a Map is the sequence of its entries in insertion order; this one keeps
\* the first value written under a key
MapSetKeepFirst(map, k, v) ==
    IF \E j \in 1..Len(map) : map[j].key = k THEN map
    ELSE Append(map, [key |-> k, value |-> v])

\* map.set(k, v): a new key is appended, an existing key keeps its position
\* and takes the new value
MapSet(map, k, v) ==
    IF \E j \in 1..Len(map) : map[j].key = k
    THEN [j \in 1..Len(map) |-> IF map[j].key = k THEN [key |-> k, value |-> v] ELSE map[j]]
    ELSE Append(map, [key |-> k, value |-> v])

\* Array.from(map.values())
MapValues(map) == [j \in 1..Len(map) |-> map[j].value]

\* for (const i of items) map.set(key(i), i)
RECURSIVE InsertAll(_, _)
InsertAll(map, items) ==
    IF items = <<>> THEN map
    ELSE InsertAll(MapSet(map, key(Head(items)), Head(items)), Tail(items))

\* mergeAndSort of src/unnamed/part_000
mergeAndSort(items) == ArraySort(MapValues(InsertAll(<<>>, items)), "dateComparator")

\* if (!i.title || !i.link || !i.date) continue
Incomplete(i) == i.title = "" \/ i.link = "" \/ ~Truthy(i.date)

RECURSIVE InsertComplete(_, _)
InsertComplete(map, items) ==
    IF items = <<>> THEN map
    ELSE LET i == Head(items)
         IN  InsertComplete(IF Incomplete(i) THEN map ELSE MapSet(map, key(i), i), Tail(items))

\* mergeAndSort of src/tools/scrape-otc-and-sec.js
mergeAndSortTools(items) == ArraySort(MapValues(InsertComplete(<<>>, items)), "dateComparator")

(***************************************************************************)
(* State.                                                                  *)
(***************************************************************************)
VARIABLES
    \* reconciler called on its own: the argument, the result, which call ran
    items, out, called,
    \* pipeline run: position in main, resolved issuer id, the two extractors'
    \* results, the reconciled list, the feed file (the array whose JSON text
    \* was written to it, and whether the file holds the whole of that text,
    \* a part of it or none) and how often it was written,
    \* whether the scrape failure was warned about (console.warn)
    pc, cik, secItems, otcItems, merged, artifact, writes, warned,
    \* the exception that reached the final .catch of main ("" while none has)
    error,
    \* widget: the three module variables, the controls, the pending debounce
    \* timer, the progress of init, and what renderPage put on the page
    raw, filtered, page, q, sort, timer, load, statusEl, list, pageinfo,
    prevDisabled, nextDisabled,
    \* what the server answered to fetch("disclosures.json")
    response

mergeVars == <<items, out, called>>
pipeVars == <<pc, cik, secItems, otcItems, merged, artifact, writes, warned, error>>
widgetVars == <<raw, filtered, page, q, sort, timer, load, statusEl, list, pageinfo,
                prevDisabled, nextDisabled, response>>
hostVars == <<hostTimeZone, hostLocale>>
vars == <<mergeVars, pipeVars, widgetVars, hostVars>>

\* the parts of the state a specification does not use stay as they start
MergeIdle == items = <<>> /\ out = <<>> /\ called = "idle"
PipeIdle ==
    /\ pc = "idle" /\ cik = Null /\ secItems = <<>> /\ otcItems = <<>>
    /\ merged = <<>> /\ artifact = [text |-> "whole", array |-> <<>>] /\ writes = 0 /\ warned = FALSE /\ error = ""
WidgetIdle ==
    /\ raw = <<>> /\ filtered = <<>> /\ page = 1 /\ q = "" /\ sort = ""
    /\ timer = FALSE /\ load = "idle" /\ statusEl = "" /\ list = <<>>
    /\ pageinfo = "" /\ prevDisabled = FALSE /\ nextDisabled = FALSE
    /\ response = [outcome |-> "pending", data |-> [kind |-> "null", items |-> "absent", elems |-> <<>>]]

SeqsUpTo(S, n) == UNION {[1..k -> S] : k \in 0..n}

(***************************************************************************)
(* The reconciler on its own: any candidate sequence, either mergeAndSort. *)
(***************************************************************************)
SecLink == "https://www.sec.gov/Archives/edgar/data/123456/000123456724000012/ex1.htm"
OtcLink == "https://www.otcmarkets.com/file/annual-report"

Candidate(src, t, d) ==
    [source |-> src, title |-> t, date |-> d, link |-> SecLink,
     description |-> IF src = "SEC" THEN SecDescription ELSE OtcDescription]

\* complete candidates: equal keys across the two sources, equal dates under
\* different titles
CompleteCandidates ==
    {Candidate(src, t, d) : src \in {"SEC", "OTC"}, t \in {"8-K filed", "Annual Report"},
                            d \in {Str("2024-03-01"), Str("2024-01-15"), Str("2023-12-31")}}

\* candidates lacking a title or a date (a filing date that is empty, null
\* or read past the end of its array)
IncompleteCandidates ==
    {Candidate("OTC", "", Str("2024-03-01")), Candidate("SEC", "8-K filed", Str("")),
     Candidate("SEC", "8-K filed", Null), Candidate("SEC", "8-K filed", Undefined)}

Candidates == CompleteCandidates \cup IncompleteCandidates

InitMerge ==
    /\ items \in SeqsUpTo(Candidates, MaxItems)
    /\ out = <<>> /\ called = "idle"
    /\ PipeIdle /\ WidgetIdle
    /\ hostTimeZone = "UTC" /\ hostLocale = "en-US"

CallMergeAndSort ==
    /\ called = "idle"
    /\ out' = mergeAndSort(items)
    /\ called' = "part_000"
    /\ UNCHANGED <<items, pipeVars, widgetVars, hostVars>>

CallMergeAndSortTools ==
    /\ called = "idle"
    /\ out' = mergeAndSortTools(items)
    /\ called' = "tools"
    /\ UNCHANGED <<items, pipeVars, widgetVars, hostVars>>

NextMerge == CallMergeAndSort \/ CallMergeAndSortTools

SpecMerge == InitMerge /\ [][NextMerge]_vars

(***************************************************************************)
(* The pipeline of src/unnamed/part_000.                                   *)
(***************************************************************************)
SYMBOL == "TUTH"

\* a[i] of a JavaScript array (0-based i): undefined past the end
At(arr, i) == IF i + 1 \in 1..Len(arr) THEN arr[i + 1] ELSE Undefined

\* Object.values(map).find(v => String(v.ticker).toUpperCase() === ...)
RECURSIVE FindTicker(_, _)
FindTicker(map, ticker) ==
    IF map = <<>> THEN <<>>
    ELSE IF ToUpperCase(Head(map).ticker) = ToUpperCase(ticker) THEN <<Head(map)>>
    ELSE FindTicker(Tail(map), ticker)

\* resolveCikFromTicker, given the issuer directory it fetched:
\* hit?.cik_str ? String(hit.cik_str).padStart(10, '0') : null
resolveCikFromTicker(map, ticker) ==
    LET hit == FindTicker(map, ticker)
    IN  IF hit # <<>> /\ hit[1].cik_str # 0
        THEN Str(PadStart(NumToStr(hit[1].cik_str), 10, "0"))
        ELSE Null

keepForms == {"8-K", "10-Q", "10-K", "6-K", "S-1", "S-3", "SC 13D", "SC 13G", "DEF 14A"}

\* acc.replace(/-/g, '')
RECURSIVE RemoveDashes(_)
RemoveDashes(s) ==
    IF s = "" THEN ""
    ELSE (IF CharAt(s, 1) = "-" THEN "" ELSE CharAt(s, 1)) \o RemoveDashes(Tail(s))

EdgarLink(cikNumber, acc, primary) ==
    "https://www.sec.gov/Archives/edgar/data/" \o NumToStr(cikNumber) \o "/"
        \o RemoveDashes(acc) \o "/" \o JsString(primary)

\* the loop of getSecRecentFilings from index i on; threw records the
\* TypeError of acc.replace on an accession number that is not a string
RECURSIVE SecLoop(_, _, _, _, _)
SecLoop(cik10, recent, i, n, acc) ==
    IF i >= n THEN [threw |-> FALSE, out |-> acc]
    ELSE LET form == At(recent.form, i)
             filed == At(recent.filingDate, i)
             accession == At(recent.accessionNumber, i)
             primary == At(recent.primaryDocument, i)
         IN  IF ~(IsStr(form) /\ form.s \in keepForms)
             THEN SecLoop(cik10, recent, i + 1, n, acc)
             ELSE IF ~IsStr(accession) THEN [threw |-> TRUE, out |-> acc]
             ELSE SecLoop(cik10, recent, i + 1, n,
                          Append(acc, [source |-> "SEC",
                                       title |-> form.s \o " filed",
                                       date |-> filed,
                                       description |-> SecDescription,
                                       link |-> EdgarLink(StrToNum(cik10), accession.s, primary)]))

\* getSecRecentFilings, given the filing history it fetched (json.present:
\* json?.filings?.recent exists)
getSecRecentFilings(cik10, json) ==
    IF ~json.present THEN [threw |-> FALSE, out |-> <<>>]
    ELSE SecLoop(cik10, json.recent, 0, Min(Len(json.recent.form), 200), <<>>)

\* items.map(i => ({ ...i, date: toISO(i.date) })).filter(i => i.title && i.link && i.date)
RECURSIVE MapFilterRows(_)
MapFilterRows(rows) ==
    IF rows = <<>> THEN <<>>
    ELSE LET Kept(i) == IF i.title # "" /\ i.link # "" /\ Truthy(i.date) THEN <<i>> ELSE <<>>
         IN  Kept([Head(rows) EXCEPT !.date = toISO(Head(rows).date)])
                 \o MapFilterRows(Tail(rows))

\* --- what the outside world can answer ---
\* issuer directories (the values of company_tickers.json)
Directories ==
    {<<>>,
     <<[ticker |-> "tuth", cik_str |-> 123456]>>,
     <<[ticker |-> "AAPL", cik_str |-> 320193], [ticker |-> "TUTH", cik_str |-> 123456]>>,
     <<[ticker |-> "AAPL", cik_str |-> 320193]>>}

\* filing histories: parallel arrays, the date and accession arrays possibly
\* one entry short of the form array
Recents ==
    LET Forms == {Str("8-K"), Str("4")}
        FilingDates == {Str("2024-03-01"), Str("2024-01-15"), Str("")}
        AccessionNumbers == {Str("0001234567-24-000012")}
        PrimaryDocuments == {Str("ex1.htm"), Str("")}
    IN  UNION {[form : [1..n -> Forms],
                filingDate : [1..n -> FilingDates] \cup [1..Max(n - 1, 0) -> FilingDates],
                accessionNumber : [1..n -> AccessionNumbers]
                                     \cup [1..Max(n - 1, 0) -> AccessionNumbers],
                primaryDocument : [1..n -> PrimaryDocuments]] : n \in 0..MaxFilings}

SubmissionsJson ==
    {[present |-> FALSE, recent |-> <<>>]} \cup {[present |-> TRUE, recent |-> r] : r \in Recents}

\* rows returned by page.evaluate: the link is an absolute URL, the title may
\* be empty, the date is the text found near the anchor or null: the dateTime
\* of a <time> element (a day, or a timestamp with a zone offset), its text,
\* or a month-name date matched in the text of the row
RowTitles == {"8-K filed", ""}
RowDates ==
    {Str("2024-03-01"), Str("2024-01-15T23:30:00-05:00"), Str("Mar 1, 2024"),
     Str("Sept 31, 2024"), Str("n/a"), Null}
Rows ==
    {[source |-> "OTC", title |-> t, link |-> l, date |-> d, description |-> OtcDescription] :
        t \in RowTitles, l \in {SecLink, OtcLink}, d \in RowDates}

InitScrape ==
    /\ pc = "resolve" /\ cik = Null /\ secItems = <<>> /\ otcItems = <<>>
    /\ merged = <<>> /\ artifact = [text |-> "whole", array |-> <<>>] /\ writes = 0 /\ warned = FALSE /\ error = ""
    /\ MergeIdle /\ WidgetIdle
    /\ \E h \in Hosts : hostTimeZone = h.timeZone
    /\ hostLocale = "en-US"

\* getJson throws on a non-success status of the issuer directory; nothing
\* in main catches it before the final .catch, which exits with code 1
ResolveCikHttpError ==
    /\ pc = "resolve"
    /\ pc' = "exit1"
    /\ error' = "HTTP"
    /\ UNCHANGED <<cik, secItems, otcItems, merged, artifact, writes, warned>>
    /\ UNCHANGED <<mergeVars, widgetVars, hostVars>>

\* const cik = await resolveCikFromTicker(SYMBOL); a null cik skips the filings
ResolveCik ==
    /\ pc = "resolve"
    /\ \E map \in Directories :
          /\ cik' = resolveCikFromTicker(map, SYMBOL)
          /\ pc' = IF Truthy(cik') THEN "filings" ELSE "scrape"
    /\ UNCHANGED <<secItems, otcItems, merged, artifact, writes, warned>>
    /\ UNCHANGED <<error, mergeVars, widgetVars, hostVars>>

\* getJson throws on a non-success status of the filing history
GetSecRecentFilingsHttpError ==
    /\ pc = "filings"
    /\ pc' = "exit1"
    /\ error' = "HTTP"
    /\ UNCHANGED <<cik, secItems, otcItems, merged, artifact, writes, warned>>
    /\ UNCHANGED <<mergeVars, widgetVars, hostVars>>

\* const secItems = cik ? await getSecRecentFilings(cik) : []
GetSecRecentFilings ==
    /\ pc = "filings"
    /\ \E json \in SubmissionsJson :
          LET r == getSecRecentFilings(cik.s, json)
          IN  /\ secItems' = IF r.threw THEN secItems ELSE r.out
              /\ pc' = IF r.threw THEN "exit1" ELSE "scrape"
              /\ error' = IF r.threw THEN "TypeError" ELSE error
    /\ UNCHANGED <<cik, otcItems, merged, artifact, writes, warned>>
    /\ UNCHANGED <<mergeVars, widgetVars, hostVars>>

\* scrapeOtcDisclosures throws (launch, navigation, evaluation); main catches
\* it, warns and keeps otcItems = []
ScrapeOtcThrows ==
    /\ pc = "scrape"
    /\ warned' = TRUE
    /\ otcItems' = <<>>
    /\ pc' = "merge"
    /\ UNCHANGED <<cik, secItems, merged, artifact, writes>>
    /\ UNCHANGED <<error, mergeVars, widgetVars, hostVars>>

\* otcItems = await scrapeOtcDisclosures()
ScrapeOtc ==
    /\ pc = "scrape"
    /\ \E rows \in SeqsUpTo(Rows, MaxRows) : otcItems' = MapFilterRows(rows)
    /\ pc' = "merge"
    /\ UNCHANGED <<cik, secItems, merged, artifact, writes, warned>>
    /\ UNCHANGED <<error, mergeVars, widgetVars, hostVars>>

\* const merged = mergeAndSort([...secItems, ...otcItems])
Merge ==
    /\ pc = "merge"
    /\ merged' = mergeAndSort(secItems \o otcItems)
    /\ pc' = "write"
    /\ UNCHANGED <<cik, secItems, otcItems, artifact, writes, warned>>
    /\ UNCHANGED <<error, mergeVars, widgetVars, hostVars>>

\* await fs.writeFile(WRITE_PATH, JSON.stringify(merged, null, 2), 'utf8'):
\* the file now holds the array (a property whose value is undefined is left
\* out of the JSON text and reads back as undefined)
WriteArtifact ==
    /\ pc = "write"
    /\ artifact' = [text |-> "whole", array |-> merged]
    /\ writes' = writes + 1
    /\ pc' = "done"
    /\ UNCHANGED <<cik, secItems, otcItems, merged, warned>>
    /\ UNCHANGED <<error, mergeVars, widgetVars, hostVars>>

\* fs.writeFile rejects: the final .catch exits with code 1.  The file is
\* opened with flag "w", which empties it, and the text is then written in
\* one or more writes: the file is as it was if opening it failed, empty if
\* the first write failed, and holds the text cut off if a later write failed
WriteArtifactFails ==
    /\ pc = "write"
    /\ artifact' \in {artifact, [text |-> "none", array |-> <<>>],
                      [text |-> "part", array |-> merged]}
    /\ pc' = "exit1"
    /\ error' = "write"
    /\ UNCHANGED <<cik, secItems, otcItems, merged, writes, warned>>
    /\ UNCHANGED <<mergeVars, widgetVars, hostVars>>

NextScrape ==
    \/ ResolveCikHttpError \/ ResolveCik
    \/ GetSecRecentFilingsHttpError \/ GetSecRecentFilings
    \/ ScrapeOtcThrows \/ ScrapeOtc
    \/ Merge \/ WriteArtifact \/ WriteArtifactFails

SpecScrape == InitScrape /\ [][NextScrape]_vars

(***************************************************************************)
(* The pipeline of src/tools/scrape-otc-and-sec.js.                        *)
(***************************************************************************)
\* let d = i.date ? new Date(i.date) : null; if (d && isNaN(d)) d = null;
\* date: d ? d.toISOString().slice(0, 10) : null
RowDate(d) ==
    IF ~Truthy(d) THEN Null
    ELSE LET Day(dt) == IF dt.nan THEN Null ELSE Str(IsoDay(dt)) IN Day(DateParse(d.s))

\* items.map(...).filter(i => i.title && i.link)
RECURSIVE ParseRows(_)
ParseRows(rows) ==
    IF rows = <<>> THEN <<>>
    ELSE LET Kept(i) == IF i.title # "" /\ i.link # "" THEN <<i>> ELSE <<>>
         IN  Kept([Head(rows) EXCEPT !.date = RowDate(Head(rows).date)])
                 \o ParseRows(Tail(rows))

\* c.tickers.some(t => String(t).toUpperCase() === ticker.toUpperCase())
HasTicker(c, ticker) ==
    \E k \in 1..Len(c.tickers) : ToUpperCase(c.tickers[k]) = ToUpperCase(ticker)

RECURSIVE FindCompany(_, _)
FindCompany(companies, ticker) ==
    IF companies = <<>> THEN <<>>
    ELSE IF HasTicker(Head(companies), ticker) THEN <<Head(companies)>>
    ELSE FindCompany(Tail(companies), ticker)

\* resolveCikFromTicker of the tools script, given the company list it fetched
resolveCikFromTickerTools(companies, ticker) ==
    LET hit == FindCompany(companies, ticker)
    IN  IF hit # <<>> /\ hit[1].cik_str # 0
        THEN Str(PadStart(NumToStr(hit[1].cik_str), 10, "0"))
        ELSE Null

disclosureForms == {"8-K", "10-Q", "10-K", "6-K", "S-1", "S-3", "SC 13D", "SC 13G", "DEF 14A"}

RECURSIVE FilterMapLoop(_, _, _, _)
FilterMapLoop(submissions, i, n, acc) ==
    IF i >= n THEN acc
    ELSE LET recent == submissions.recent
             form == At(recent.form, i)
             accession == At(recent.accessionNumber, i)
             primaryDoc == At(recent.primaryDocument, i)
             filed == At(recent.filingDate, i)
             cik10 == PadStart(submissions.cik, 10, "0")
         IN  IF ~(IsStr(form) /\ form.s \in disclosureForms)
             THEN FilterMapLoop(submissions, i + 1, n, acc)
             ELSE FilterMapLoop(submissions, i + 1, n,
                                Append(acc, [source |-> "SEC",
                                             title |-> form.s \o " filed",
                                             link |-> EdgarLink(StrToNum(cik10), accession.s,
                                                                primaryDoc),
                                             date |-> filed]))

\* filterMapSecFilings: the first min(accessionNumber.length, 200) entries
filterMapSecFilings(submissions) ==
    IF ~submissions.present THEN <<>>
    ELSE FilterMapLoop(submissions, 0, Min(Len(submissions.recent.accessionNumber), 200), <<>>)

\* .map(i => ({ title, date, description: i.source === 'SEC' ? ... : ..., link }))
FeedRecord(i) ==
    [title |-> i.title, date |-> i.date,
     description |-> IF i.source = "SEC" THEN SecDescription ELSE OtcDescription,
     link |-> i.link]

FeedRecords(seq) == [k \in 1..Len(seq) |-> FeedRecord(seq[k])]

\* company lists (data.companies of the company list endpoint)
CompanyLists ==
    {<<>>,
     <<[tickers |-> <<"tuth">>, cik_str |-> 123456]>>,
     <<[tickers |-> <<"AAPL">>, cik_str |-> 320193],
       [tickers |-> <<"TUTHX", "TUTH">>, cik_str |-> 123456]>>}

ToolsRows ==
    {[source |-> "OTC", title |-> t, link |-> l, date |-> d] :
        t \in RowTitles, l \in {SecLink, OtcLink}, d \in RowDates}

ToolsSubmissions ==
    {[present |-> FALSE, cik |-> "123456", recent |-> <<>>]}
        \cup {[present |-> TRUE, cik |-> "123456", recent |-> r] : r \in Recents}

InitTools ==
    /\ pc = "scrape" /\ cik = Null /\ secItems = <<>> /\ otcItems = <<>>
    /\ merged = <<>> /\ artifact = [text |-> "whole", array |-> <<>>] /\ writes = 0 /\ warned = FALSE /\ error = ""
    /\ MergeIdle /\ WidgetIdle
    /\ \E h \in Hosts : hostTimeZone = h.timeZone
    /\ hostLocale = "en-US"

\* const otc = await scrapeOtcDisclosures() throws: nothing catches it before
\* the final .catch, which exits with code 1
ToolsScrapeThrows ==
    /\ pc = "scrape"
    /\ pc' = "exit1"
    /\ error' = "scrape"
    /\ UNCHANGED <<cik, secItems, otcItems, merged, artifact, writes, warned>>
    /\ UNCHANGED <<mergeVars, widgetVars, hostVars>>

\* const otc = await scrapeOtcDisclosures()
ToolsScrape ==
    /\ pc = "scrape"
    /\ \E rows \in SeqsUpTo(ToolsRows, MaxRows) : otcItems' = ParseRows(rows)
    /\ pc' = "resolve"
    /\ UNCHANGED <<cik, secItems, merged, artifact, writes, warned, error>>
    /\ UNCHANGED <<mergeVars, widgetVars, hostVars>>

\* the company list answers with a non-success status
ToolsResolveCikHttpError ==
    /\ pc = "resolve"
    /\ pc' = "exit1"
    /\ error' = "HTTP"
    /\ UNCHANGED <<cik, secItems, otcItems, merged, artifact, writes, warned>>
    /\ UNCHANGED <<mergeVars, widgetVars, hostVars>>

\* if (!CIK) CIK = await resolveCikFromTicker(SYMBOL)
ToolsResolveCik ==
    /\ pc = "resolve"
    /\ \E companies \in CompanyLists :
          /\ cik' = resolveCikFromTickerTools(companies, SYMBOL)
          /\ pc' = IF Truthy(cik') THEN "submissions" ELSE "merge"
    /\ UNCHANGED <<secItems, otcItems, merged, artifact, writes, warned, error>>
    /\ UNCHANGED <<mergeVars, widgetVars, hostVars>>

\* getSecCompanySubmissionsJson throws on a non-success status
ToolsSubmissionsHttpError ==
    /\ pc = "submissions"
    /\ pc' = "exit1"
    /\ error' = "HTTP"
    /\ UNCHANGED <<cik, secItems, otcItems, merged, artifact, writes, warned>>
    /\ UNCHANGED <<mergeVars, widgetVars, hostVars>>

\* const subs = await getSecCompanySubmissionsJson(CIK); sec = filterMapSecFilings(subs)
ToolsSubmissionsOk ==
    /\ pc = "submissions"
    /\ \E subs \in ToolsSubmissions : secItems' = filterMapSecFilings(subs)
    /\ pc' = "merge"
    /\ UNCHANGED <<cik, otcItems, merged, artifact, writes, warned, error>>
    /\ UNCHANGED <<mergeVars, widgetVars, hostVars>>

\* const merged = mergeAndSort([...otc, ...sec]).map(...)
ToolsMerge ==
    /\ pc = "merge"
    /\ merged' = FeedRecords(mergeAndSortTools(otcItems \o secItems))
    /\ pc' = "write"
    /\ UNCHANGED <<cik, secItems, otcItems, artifact, writes, warned, error>>
    /\ UNCHANGED <<mergeVars, widgetVars, hostVars>>

\* await fs.writeFile('disclosures.json', JSON.stringify(merged, null, 2), 'utf8')
ToolsWrite ==
    /\ pc = "write"
    /\ artifact' = [text |-> "whole", array |-> merged]
    /\ writes' = writes + 1
    /\ pc' = "done"
    /\ UNCHANGED <<cik, secItems, otcItems, merged, warned, error>>
    /\ UNCHANGED <<mergeVars, widgetVars, hostVars>>

\* fs.writeFile rejects: the file is as it was, empty or cut off, and the
\* final .catch exits with code 1
ToolsWriteFails ==
    /\ pc = "write"
    /\ artifact' \in {artifact, [text |-> "none", array |-> <<>>],
                      [text |-> "part", array |-> merged]}
    /\ pc' = "exit1"
    /\ error' = "write"
    /\ UNCHANGED <<cik, secItems, otcItems, merged, writes, warned>>
    /\ UNCHANGED <<mergeVars, widgetVars, hostVars>>

NextTools ==
    \/ ToolsScrapeThrows \/ ToolsScrape
    \/ ToolsResolveCikHttpError \/ ToolsResolveCik
    \/ ToolsSubmissionsHttpError \/ ToolsSubmissionsOk
    \/ ToolsMerge \/ ToolsWrite \/ ToolsWriteFails

SpecTools == InitTools /\ [][NextTools]_vars

(***************************************************************************)
(* The widget of src/script.js.                                            *)
(***************************************************************************)
PAGE_SIZE == 8

\* an item of the artifact is null or an object whose fields are strings,
\* null or missing
ItemThrows(item) == item.kind = "null"

\* const d = new Date(item.date || item.datetime || 0);
\* const okDate = !Number.isNaN(d.getTime()) ? d : new Date(0)
\* (a Date is modelled by its time value)
ItemDate(item) ==
    LET v == IF Truthy(item.date) THEN item.date ELSE item.datetime
        okDate(d) == IF d.nan THEN TimeValue(0, 0) ELSE d
    IN  okDate(IF Truthy(v) THEN DateParse(v.s) ELSE TimeValue(0, 0))

normalize(item) ==
    [title |-> Trim(JsString(Coalesce(item.title, Str("")))),
     description |-> Trim(JsString(Coalesce(item.description, Str("")))),
     link |-> Trim(JsString(Coalesce(item.link, Str("")))),
     date |-> ItemDate(item)]

Placeholder ==
    [title |-> "Placeholder until first run",
     description |-> "This file will be replaced automatically by your publishing workflow.",
     date |-> DateParse("2025-01-01"),
     link |-> "#"]

\* (the source writes U+2026 for the three dots, and U+2013 for the dash of pageinfo)
LoadingStatus == "Loading..."
EmptyStatus == "No disclosures yet."
FailedStatus == "Could not load disclosures. Showing placeholder."

\* filtered.sort((a, b) => ...) under the mode read from the sort control
sortFiltered(f, mode) == ArraySort(f, mode)

\* the predicate handed to raw.filter
filterPredicate(query, it) ==
    \/ query = ""
    \/ Includes(ToLowerCase(it.title), query)
    \/ Includes(ToLowerCase(it.description), query)

RECURSIVE Filter(_, _)
Filter(seq, query) ==
    IF seq = <<>> THEN <<>>
    ELSE (IF filterPredicate(query, Head(seq)) THEN <<Head(seq)>> ELSE <<>>)
             \o Filter(Tail(seq), query)

CeilDiv(a, b) == (a + b - 1) \div b

PageInfoText(from, to, total) ==
    NumToStr(from) \o "-" \o NumToStr(to) \o " of " \o NumToStr(total)

\* renderPage without the upper clamp of page
renderPageNoUpperClamp(f, p) ==
    LET total == Len(f)
        pages == Max(1, CeilDiv(total, PAGE_SIZE))
        pg == Max(1, p)
        start == (pg - 1) * PAGE_SIZE
    IN  /\ page' = pg
        /\ list' = IF start < total THEN SubSeq(f, start + 1, Min(start + PAGE_SIZE, total))
                   ELSE <<>>
        /\ pageinfo' = PageInfoText(IF total # 0 THEN start + 1 ELSE 0,
                                    Min(start + PAGE_SIZE, total), total)
        /\ prevDisabled' = (pg <= 1)
        /\ nextDisabled' = (pg >= pages)

\* renderPage with the module variables filtered = f and page = p: clamps
\* page, shows the slice (one card per record), the range and the buttons
renderPage(f, p) ==
    LET total == Len(f)
        pages == Max(1, CeilDiv(total, PAGE_SIZE))
        pg == Min(Max(1, p), pages)
        start == (pg - 1) * PAGE_SIZE
    IN  /\ page' = pg
        /\ list' = SubSeq(f, start + 1, Min(start + PAGE_SIZE, total))
        /\ pageinfo' = PageInfoText(IF total # 0 THEN start + 1 ELSE 0,
                                    Min(start + PAGE_SIZE, total), total)
        /\ prevDisabled' = (pg <= 1)
        /\ nextDisabled' = (pg >= pages)

\* applyFilters that leaves page where it is
applyFiltersKeepPage(r, qValue, sortValue) ==
    LET query == ToLowerCase(Trim(qValue))
        f == sortFiltered(Filter(r, query), sortValue)
    IN  /\ raw' = r
        /\ filtered' = f
        /\ renderPage(f, page)

\* applyFilters that sorts raw in place before filtering it
applyFiltersInPlace(r, qValue, sortValue) ==
    LET query == ToLowerCase(Trim(qValue))
        sorted == sortFiltered(r, sortValue)
        f == Filter(sorted, query)
    IN  /\ raw' = sorted
        /\ filtered' = f
        /\ renderPage(f, 1)

\* applyFilters with the module variable raw = r, reading the two controls
applyFilters(r, qValue, sortValue) ==
    LET query == ToLowerCase(Trim(qValue))
        f == sortFiltered(Filter(r, query), sortValue)
    IN  /\ raw' = r
        /\ filtered' = f
        /\ renderPage(f, 1)

\* a catch block that leaves the working set empty
initCatchEmpty ==
    /\ statusEl' = FailedStatus
    /\ load' = "failed"
    /\ applyFilters(<<>>, q, sort)

\* the catch block of init
initCatch ==
    /\ statusEl' = FailedStatus
    /\ load' = "failed"
    /\ applyFilters(<<Placeholder>>, q, sort)

\* --- what the outside world can do ---
\* a missing field reads as undefined
JsonItem(t, d, l, dt, dtm) ==
    [kind |-> "object", title |-> t, description |-> d, link |-> l, date |-> dt, datetime |-> dtm]

JsonItems ==
    {JsonItem(Str("Alpha Report"), Str("SEC EDGAR filing"), Str("https://x/a"),
              Str("2024-03-01"), Undefined),
     JsonItem(Str("  beta notice "), Undefined, Undefined, Undefined,
              Str("2024-03-01T12:00:00Z")),
     JsonItem(Str("Gamma 8K"), Null, Str(" https://x/g "), Str("Mar 1, 2024"), Null),
     JsonItem(Undefined, Str("Alpha annex"), Null, Str("n/a"), Undefined),
     [kind |-> "null", title |-> Undefined, description |-> Undefined, link |-> Undefined,
      date |-> Undefined, datetime |-> Undefined]}

\* a feed of n dated records: days as the pipeline writes them, and a
\* timestamp within one of those days; titles that differ in case only,
\* and titles the locales order differently
LongFeed(n) ==
    LET FeedTitles == <<"Alpha Report", "beta notice", "alpha report", "Gamma 8K",
                        "Zeta Holdings", "Tender Offer", "Aarhus notice">>
        FeedDates == <<"2024-03-01", "2024-01-15", "2024-03-01T12:00:00Z", "2023-12-31",
                       "2024-02-29">>
    IN  [i \in 1..n |->
            JsonItem(Str(FeedTitles[(i % Len(FeedTitles)) + 1]), Str("SEC EDGAR filing"),
                     Str("https://x/a"), Str(FeedDates[(i % Len(FeedDates)) + 1]), Undefined)]

JsonArrays ==
    SeqsUpTo(JsonItems, MaxFeed)
        \cup {LongFeed(k * PAGE_SIZE) : k \in 1..MaxPages}
        \cup {LongFeed(k * PAGE_SIZE + 1) : k \in 1..MaxPages}

JsonValue(kind, itemsKind, elems) == [kind |-> kind, items |-> itemsKind, elems |-> elems]

\* parsed bodies: null, a number, a string, an object without items, an
\* object whose items is not an array, {items: [...]}, [...]
JsonValues ==
    {JsonValue("null", "absent", <<>>), JsonValue("number", "absent", <<>>),
     JsonValue("string", "absent", <<>>), JsonValue("object", "absent", <<>>),
     JsonValue("object", "string", <<>>)}
        \cup {JsonValue("object", "array", a) : a \in JsonArrays}
        \cup {JsonValue("array", "absent", a) : a \in JsonArrays}

QueryTexts == {"", " ALPHA ", "report", "zz"}
SortModes == {"date_desc", "date_asc", "title_asc", "title_desc", "none"}

\* the state once the script has run to the first await of init(); the
\* selected sort option and the buttons' disabled attributes come from the page
InitWidget ==
    /\ raw = <<>> /\ filtered = <<>> /\ page = 1
    /\ q = "" /\ sort \in SortModes /\ timer = FALSE
    /\ load = "loading" /\ statusEl = LoadingStatus
    /\ list = <<>> /\ pageinfo = ""
    /\ prevDisabled \in BOOLEAN /\ nextDisabled \in BOOLEAN
    /\ response = [outcome |-> "pending", data |-> JsonValue("null", "absent", <<>>)]
    /\ MergeIdle /\ PipeIdle
    /\ \E h \in Hosts : hostTimeZone = h.timeZone /\ hostLocale = h.locale

\* fetch rejects
FetchRejects ==
    /\ load = "loading"
    /\ response' = [response EXCEPT !.outcome = "rejected"]
    /\ initCatch
    /\ UNCHANGED <<q, sort, timer, mergeVars, pipeVars, hostVars>>

\* if (!res.ok) throw new Error(`HTTP ${res.status}`)
ResponseNotOk ==
    /\ load = "loading"
    /\ response' = [response EXCEPT !.outcome = "status"]
    /\ initCatch
    /\ UNCHANGED <<q, sort, timer, mergeVars, pipeVars, hostVars>>

\* res.json() rejects: the body is not JSON
BodyNotJson ==
    /\ load = "loading"
    /\ response' = [response EXCEPT !.outcome = "syntax"]
    /\ initCatch
    /\ UNCHANGED <<q, sort, timer, mergeVars, pipeVars, hostVars>>

\* const items = Array.isArray(data) ? data : Array.isArray(data.items) ? data.items : []
\* reading data.items of null throws a TypeError
ItemsThrows(data) == data.kind = "null"
ItemsOf(data) ==
    IF data.kind = "array" THEN data.elems
    ELSE IF data.kind = "object" /\ data.items = "array" THEN data.elems
    ELSE <<>>

\* items.slice(0, 2000)
Capped(arr) == SubSeq(arr, 1, Min(Len(arr), 2000))

\* whether the try block throws a TypeError on the parsed body
TryThrows(data) ==
    \/ ItemsThrows(data)
    \/ \E k \in 1..Len(Capped(ItemsOf(data))) : ItemThrows(Capped(ItemsOf(data))[k])

\* items.slice(0, 2000).map(normalize)
NormalizedItems(data) ==
    LET capped == Capped(ItemsOf(data)) IN [k \in 1..Len(capped) |-> normalize(capped[k])]

\* the body parsed, and the try block throws a TypeError (data is null, or
\* normalize reads a field of a null item): the catch block runs
BodyParsedThrows ==
    /\ load = "loading"
    /\ \E data \in JsonValues :
          /\ TryThrows(data)
          /\ response' = [outcome |-> "json", data |-> data]
    /\ initCatch
    /\ UNCHANGED <<q, sort, timer, mergeVars, pipeVars, hostVars>>

\* the body parsed and the try block runs to its end
BodyParsed ==
    /\ load = "loading"
    /\ \E data \in JsonValues :
          /\ ~TryThrows(data)
          /\ response' = [outcome |-> "json", data |-> data]
          /\ LET r == NormalizedItems(data)
             IN  /\ statusEl' = IF Len(r) # 0 THEN "" ELSE EmptyStatus
                 /\ applyFilters(r, q, sort)
    /\ load' = "loaded"
    /\ UNCHANGED <<q, sort, timer, mergeVars, pipeVars, hostVars>>

\* q "input" event: the debounced listener clears the pending timer and
\* sets a new one
QueryInput ==
    /\ \E text \in QueryTexts \ {q} : q' = text
    /\ timer' = TRUE
    /\ UNCHANGED <<raw, filtered, page, sort, load, statusEl, list, pageinfo,
                   prevDisabled, nextDisabled, response, mergeVars, pipeVars, hostVars>>

\* the debounce timer fires: applyFilters
DebounceFires ==
    /\ timer
    /\ timer' = FALSE
    /\ applyFilters(raw, q, sort)
    /\ UNCHANGED <<q, sort, load, statusEl, response, mergeVars, pipeVars, hostVars>>

\* sort "change" event: applyFilters
SortChange ==
    /\ \E mode \in SortModes \ {sort} :
          /\ sort' = mode
          /\ applyFilters(raw, q, mode)
    /\ UNCHANGED <<q, timer, load, statusEl, response, mergeVars, pipeVars, hostVars>>

\* prev "click" (a disabled button sends none): page--; renderPage()
PrevClick ==
    /\ ~prevDisabled
    /\ renderPage(filtered, page - 1)
    /\ UNCHANGED <<raw, filtered, q, sort, timer, load, statusEl, response, mergeVars, pipeVars, hostVars>>

\* next "click": page++; renderPage()
NextClick ==
    /\ ~nextDisabled
    /\ renderPage(filtered, page + 1)
    /\ UNCHANGED <<raw, filtered, q, sort, timer, load, statusEl, response, mergeVars, pipeVars, hostVars>>

NextWidget ==
    \/ FetchRejects \/ ResponseNotOk \/ BodyNotJson \/ BodyParsedThrows \/ BodyParsed
    \/ QueryInput \/ DebounceFires \/ SortChange \/ PrevClick \/ NextClick

SpecWidget == InitWidget /\ [][NextWidget]_vars

(***************************************************************************)
(* Claims about the pipeline.                                              *)
(***************************************************************************)
CompleteRecord(r) == r.title # "" /\ r.link # "" /\ Truthy(r.date)

\* C1: no record of the sequence mergeAndSort returned, and none written to
\* the feed artifact, has an empty title, an empty link or a null/empty date.
C1_NoIncompleteRecord ==
    /\ pc \in {"write", "done"} => \A i \in 1..Len(merged) : CompleteRecord(merged[i])
    /\ pc = "done" => \A i \in 1..Len(artifact.array) : CompleteRecord(artifact.array[i])

\* the webpage extraction threw: main warned about it, or it reached the
\* final .catch
ScrapeThrew == warned \/ error = "scrape"

\* C4: when the webpage extraction throws, the run is not ended by it, and
\* a finished run has written the artifact exactly once, holding the
\* reconciled regulatory candidates and no webpage record.
C4_ScrapeFailureTolerated ==
    ScrapeThrew =>
        /\ error # "scrape"
        /\ pc = "done" =>
              /\ writes = 1
              /\ artifact = [text |-> "whole", array |-> mergeAndSort(secItems)]
              /\ \A i \in 1..Len(artifact.array) : artifact.array[i].source # "OTC"

\* C5: a non-success HTTP status of a regulatory endpoint never ends the run:
\* the regulatory extractor contributes nothing and the run goes on.
C5_HttpFailureTolerated == error # "HTTP"

(***************************************************************************)
(* Claims about the reconciler.                                            *)
(***************************************************************************)
\* the identity of a record: its (title, link, date) triple
Identity(x) == <<x.title, x.link, x.date>>

\* the position of the last record of a sequence with the identity of x
LastWith(seq, x) ==
    CHOOSE k \in 1..Len(seq) :
        /\ Identity(seq[k]) = Identity(x)
        /\ \A m \in (k + 1)..Len(seq) : Identity(seq[m]) # Identity(x)

\* C2: after either mergeAndSort has run, the output holds at most one record
\* per identity (title, link, date), and every record of the output is the
\* last record of the input with its identity, with all of that record's
\* fields (source and description included).
C2_LastWriteWins ==
    called # "idle" =>
        /\ \A i, j \in 1..Len(out) : Identity(out[i]) = Identity(out[j]) => i = j
        /\ \A i \in 1..Len(out) :
              /\ \E k \in 1..Len(items) : Identity(items[k]) = Identity(out[i])
              /\ out[i] = items[LastWith(items, out[i])]

\* C2 witness: the input held the same identity twice, from different sources,
\* and the output holds the later record alone.
C2_Witness ==
    /\ called # "idle"
    /\ \E i, j \in 1..Len(items) :
          /\ i < j
          /\ Identity(items[i]) = Identity(items[j])
          /\ items[i].source # items[j].source
          /\ \E n \in 1..Len(out) : out[n] = items[j]
          /\ \A n \in 1..Len(out) : out[n] # items[i]

AllComplete(seq) == \A k \in 1..Len(seq) : ~Incomplete(seq[k])

\* the records that survive deduplication: the last of each identity
Deduplicated(seq) == {seq[k] : k \in {n \in 1..Len(seq) : LastWith(seq, seq[n]) = n}}

\* C3: for an input of complete candidates, the output of either mergeAndSort
\* is a permutation of the deduplicated records, and no record of it has a
\* date string smaller than the date string of the record after it.
C3_SortedPermutation ==
    (called # "idle" /\ AllComplete(items)) =>
        /\ {out[i] : i \in 1..Len(out)} = Deduplicated(items)
        /\ Len(out) = Cardinality(Deduplicated(items))
        /\ \A i \in 1..(Len(out) - 1) : ~StrLess(out[i].date.s, out[i + 1].date.s)

\* C3 witness: a complete input whose output holds three records, two of them
\* with the same date, and whose input order was not already the output order.
C3_Witness ==
    /\ called # "idle" /\ AllComplete(items)
    /\ Len(out) = 3 /\ out # items
    /\ \E i \in 1..2 : out[i].date = out[i + 1].date
    /\ \E i \in 1..2 : out[i].date # out[i + 1].date

(***************************************************************************)
(* Claims about the widget.                                                *)
(***************************************************************************)
\* text occurs in s, letters compared without regard to case
OccursIgnoringCase(s, text) ==
    \E i \in 0..(Len(s) - Len(text)) :
        \A k \in 1..Len(text) : LowerChar(CharAt(s, i + k)) = LowerChar(CharAt(text, k))

\* text occurs in the record's title or description, case aside
Contains(it, text) ==
    OccursIgnoringCase(it.title, text) \/ OccursIgnoringCase(it.description, text)

\* the record matches the query text with its surrounding blanks removed
Matches(it, text) == Contains(it, Trim(text))

Quiescent == load # "loading" /\ ~timer

\* C6: when loading the artifact failed (fetch rejected, status not ok, body
\* not JSON), raw is exactly the placeholder record, filtered and the
\* rendered page come from that record alone (it is shown unless the query
\* text filters it out), and the status is the fixed message.
C6_PlaceholderOnLoadFailure ==
    response.outcome \in {"rejected", "status", "syntax"} =>
        /\ load = "failed"
        /\ raw = <<Placeholder>>
        /\ statusEl = FailedStatus
        /\ filtered \in {<<>>, <<Placeholder>>}
        /\ list = filtered /\ page = 1
        /\ ~timer => (filtered = <<Placeholder>> <=> Matches(Placeholder, q))

\* C6 witness: the server answered with a status that is not ok, and the page
\* shows the placeholder.
C6_Witness ==
    /\ response.outcome = "status"
    /\ raw = <<Placeholder>> /\ list = <<Placeholder>> /\ statusEl = FailedStatus

\* the working set the claim C7 names for a parsed body
ClaimedWorkingSet(data) ==
    IF data.kind = "array" \/ (data.kind = "object" /\ data.items = "array")
    THEN [k \in 1..Len(data.elems) |-> normalize(data.elems[k])]
    ELSE <<>>

\* C7: for a fetched and parsed artifact, raw is the normalized records of
\* the array (bare, or under items), and empty for every other JSON value,
\* without the load-failure placeholder.
C7_WorkingSetOfParsedBody ==
    (response.outcome = "json" /\ load # "loading") =>
        /\ load = "loaded"
        /\ raw = ClaimedWorkingSet(response.data)

\* C8: page lies in 1 .. ceil(total / PAGE_SIZE) (1 when total = 0), and once
\* a page was rendered the range shown is from..to of total with
\* from <= to <= total and at most PAGE_SIZE records, 0-0 of 0 when empty.
C8_PageWithinRange ==
    LET total == Len(filtered)
    IN  /\ page >= 1
        /\ total = 0 => page = 1
        /\ total > 0 => page * PAGE_SIZE < total + PAGE_SIZE
        /\ pageinfo # "" =>
              \E from \in 0..total, to \in 0..total :
                  /\ pageinfo = PageInfoText(from, to, total)
                  /\ from <= to /\ to - from + 1 <= PAGE_SIZE
                  /\ total = 0 => from = 0 /\ to = 0
                  /\ total > 0 => from = (page - 1) * PAGE_SIZE + 1
                  /\ Len(list) = (IF total = 0 THEN 0 ELSE to - from + 1)

\* C8 witness: the last of several pages is shown, and it is not full.
C8_Witness ==
    /\ page > 1
    /\ Len(filtered) > (page - 1) * PAGE_SIZE /\ Len(filtered) < page * PAGE_SIZE
    /\ nextDisabled /\ ~prevDisabled

\* C9: a step that changes the sort mode, or runs the debounced handler of a
\* query change, or changes the filtered list, leaves page = 1; a step that
\* leaves page above 1 changes neither the sort mode nor the filtered list.
C9_PageResetOnChange ==
    [][/\ sort' # sort => page' = 1
       /\ (timer /\ ~timer') => page' = 1
       /\ filtered' # filtered => page' = 1
       /\ page' > 1 => (filtered' = filtered /\ sort' = sort)]_vars

\* C9 witness: page 2 or later is shown while a changed query text waits for
\* its debounce timer.
C9_Witness == page > 1 /\ timer /\ q # ""

Count(seq, x) == Cardinality({i \in 1..Len(seq) : seq[i] = x})

\* the records of seq that match the query text with its surrounding blanks
\* removed, in the order of seq
Selected(seq, text) == LET Test(x) == Matches(x, text) IN SelectSeq(seq, Test)

\* the records of seq that hold the query text as it stands, in the order of seq
SelectedAsTyped(seq, text) == LET Test(x) == Contains(x, text) IN SelectSeq(seq, Test)

OrderedBy(mode, f) ==
    \A i \in 1..(Len(f) - 1) :
        /\ mode = "date_desc" => MsSign(DateMinus(f[i].date, f[i + 1].date)) >= 0
        /\ mode = "date_asc" => MsSign(DateMinus(f[i].date, f[i + 1].date)) <= 0
        /\ mode = "title_asc" => localeCompare(f[i].title, f[i + 1].title) <= 0
        /\ mode = "title_desc" => localeCompare(f[i].title, f[i + 1].title) >= 0

\* the working set init leaves behind for a response
WorkingSetOf(resp) ==
    IF resp.outcome = "json" /\ ~TryThrows(resp.data) THEN NormalizedItems(resp.data)
    ELSE <<Placeholder>>

\* C10 as stated: when the load has finished and no debounce timer is
\* pending, filtered holds exactly the records of raw that hold the current
\* query text (case aside) in the title or the description, ordered by the
\* sort mode (in raw's order under the pass-through mode), and raw is still
\* the working set the load produced, in its order.  It fails: the code
\* removes the blanks around the query text before it matches.
C10_FilteredHoldsQueryText ==
    Quiescent =>
        /\ raw = WorkingSetOf(response)
        /\ \A i \in 1..Len(raw) :
              Count(filtered, raw[i]) = Count(SelectedAsTyped(raw, q), raw[i])
        /\ \A i \in 1..Len(filtered) : \E k \in 1..Len(raw) : raw[k] = filtered[i]
        /\ OrderedBy(sort, filtered)
        /\ sort \notin {"date_desc", "date_asc", "title_asc", "title_desc"}
              => filtered = SelectedAsTyped(raw, q)

\* C10, amended: when the load has finished and no debounce timer is pending,
\* filtered holds exactly the records of raw that match the query text with
\* its leading and trailing blanks removed (every record, if nothing is left
\* of the text), ordered by the sort mode (in raw's order under the
\* pass-through mode), and raw is still the working set the load produced,
\* in its order.
C10_FilteredFollowsControls ==
    Quiescent =>
        /\ raw = WorkingSetOf(response)
        /\ \A i \in 1..Len(raw) :
              Count(filtered, raw[i]) = Count(Selected(raw, q), raw[i])
        /\ \A i \in 1..Len(filtered) : \E k \in 1..Len(raw) : raw[k] = filtered[i]
        /\ OrderedBy(sort, filtered)
        /\ sort \notin {"date_desc", "date_asc", "title_asc", "title_desc"}
              => filtered = Selected(raw, q)

\* C10 witness: after other sort modes the pass-through mode is selected,
\* with a query text that has blanks around it, that keeps some records of
\* raw and drops others, and that none of the records kept holds as typed.
C10_Witness ==
    /\ Quiescent /\ load = "loaded"
    /\ sort = "none" /\ Trim(q) # q /\ Trim(q) # ""
    /\ Len(filtered) > 1 /\ Len(filtered) < Len(raw)
    /\ \A i \in 1..Len(filtered) : ~Contains(filtered[i], q)
    /\ ~OrderedBy("date_desc", raw) /\ ~OrderedBy("title_asc", raw)

====
